---------------------------- MODULE Spec2Model ----------------------------
(***************************************************************************)
(* Picobot on a Create robot: the DSL parser, the state-machine compiler,  *)
(* the execution engine (picobot.py) and the command encoder (create.py).  *)
(*                                                                         *)
(* Text is modelled as sequences of one-character strings, so that the     *)
(* regular expression of parse, str.upper and the dictionary keys are      *)
(* computed on the characters the program text really holds.               *)
(***************************************************************************)
EXTENDS Integers, Sequences, FiniteSets, TLC

(***************************************************************************)
(* Bounds of the model.                                                    *)
(***************************************************************************)
\* A program is a sequence of at most MaxLines lines drawn from LinePool.
MaxLines == 3
\* The status byte read back after READ_BUMPER ranges over 0..MaxBumperByte.
MaxBumperByte == 4

(***************************************************************************)
(* Program text.                                                           *)
(***************************************************************************)
\* "0 **** -> N 0"
LineA == <<"0"," ","*","*","*","*"," ","-",">"," ","N"," ","0">>
\* "0 X*** -> E 1"
LineB1 == <<"0"," ","X","*","*","*"," ","-",">"," ","E"," ","1">>
\* "0 N*** -> X 0"
LineB2 == <<"0"," ","N","*","*","*"," ","-",">"," ","X"," ","0">>
\* "0 **** -> E 1"
LineDup == <<"0"," ","*","*","*","*"," ","-",">"," ","E"," ","1">>
\* "1 *e*s -> s 0"
LineLower == <<"1"," ","*","e","*","s"," ","-",">"," ","s"," ","0">>
\* "1 **** -> W 01"
LinePadded == <<"1"," ","*","*","*","*"," ","-",">"," ","W"," ","0","1">>
\* "not a rule"
LineBad == <<"n","o","t"," ","a"," ","r","u","l","e">>
\* "0 **W* -> S 0 #s"
LineComment == <<"0"," ","*","*","W","*"," ","-",">"," ","S"," ","0"," ","#","s">>

LinePool == {LineA, LineB1, LineB2, LineDup, LineLower, LinePadded, LineBad,
             LineComment}

RECURSIVE SeqsUpTo(_, _)
SeqsUpTo(S, n) ==
    IF n = 0 THEN {<<>>}
    ELSE LET shorter == SeqsUpTo(S, n - 1)
         IN  shorter \cup {Append(p, l) : p \in shorter, l \in S}

Programs == SeqsUpTo(LinePool, MaxLines)

\* sys.argv[1]: absent, the empty string, or a device name.
Argv1Values == {"missing", "", "dev"}

(***************************************************************************)
(* parse (picobot.py)                                                      *)
(***************************************************************************)
Digits == {"0","1","2","3","4","5","6","7","8","9"}
Whitespace == {" ", "\t", "\n"}
SensorClass == {"x","X","n","N","s","S","w","W","e","E","*"}
DirectionClass == {"n","N","s","S","w","W","e","E"}

\* The end of the longest run of characters of class cls that starts at i.
RECURSIVE SpanEnd(_, _, _)
SpanEnd(s, i, cls) ==
    IF i > Len(s) THEN i
    ELSE IF s[i] \notin cls THEN i
    ELSE SpanEnd(s, i + 1, cls)

\* <num>\s+<4 sensor chars>\s+->\s+<direction>\s+<num>, matched at the start
\* of s and not anchored at its end; dirs is the class of the direction
\* character.  <<>> when s does not match, else <<groupdict>>.
GrammarMatch(s, dirs) ==
    LET i1 == SpanEnd(s, 1, Digits)
        i2 == SpanEnd(s, i1, Whitespace)
        i3 == i2 + 4
        i4 == SpanEnd(s, i3, Whitespace)
        i5 == i4 + 2
        i6 == SpanEnd(s, i5, Whitespace)
        i7 == i6 + 1
        i8 == SpanEnd(s, i7, Whitespace)
        i9 == SpanEnd(s, i8, Digits)
    IN  IF /\ i1 > 1
           /\ i2 > i1
           /\ i3 - 1 <= Len(s)
           /\ \A j \in i2..(i3 - 1) : s[j] \in SensorClass
           /\ i4 > i3
           /\ i4 + 1 <= Len(s)
           /\ s[i4] = "-"
           /\ s[i4 + 1] = ">"
           /\ i6 > i5
           /\ i6 <= Len(s)
           /\ s[i6] \in dirs
           /\ i8 > i7
           /\ i9 > i8
        THEN << [state_num    |-> SubSeq(s, 1, i1 - 1),
                 sensor_state |-> SubSeq(s, i2, i3 - 1),
                 direction    |-> s[i6],
                 new_state    |-> SubSeq(s, i8, i9 - 1)] >>
        ELSE << >>

state_regex(s) == GrammarMatch(s, DirectionClass)

\* A variant that takes only a leading marker for a comment.
comment_regex_leading(s) == Len(s) > 0 /\ s[1] = "#"

comment_regex(s) == \E i \in 1..Len(s) : s[i] = "#"

\* Lines 25-26: the match dictionaries of the lines that are no comment and
\* match the grammar, in input order.
RECURSIVE match_dicts(_)
match_dicts(state_data) ==
    IF state_data = << >> THEN << >>
    ELSE LET line == Head(state_data)
             rest == match_dicts(Tail(state_data))
         IN  IF comment_regex(line) THEN rest ELSE state_regex(line) \o rest

\* itertools.groupby starts a new group whenever the key changes; the dict
\* comprehension keeps, for each key, the last group that carries it.
RunStart(ms, j) ==
    CHOOSE i \in 1..j :
        /\ \A k \in i..j : ms[k].state_num = ms[j].state_num
        /\ (i = 1 \/ ms[i - 1].state_num # ms[j].state_num)

groupby_dict(ms) ==
    [key \in {ms[i].state_num : i \in 1..Len(ms)} |->
        LET last == CHOOSE j \in 1..Len(ms) :
                        /\ ms[j].state_num = key
                        /\ \A k \in (j + 1)..Len(ms) : ms[k].state_num # key
        IN  SubSeq(ms, RunStart(ms, last), last)]

parse(state_data) == groupby_dict(match_dicts(state_data))

(***************************************************************************)
(* Direction encodings.                                                    *)
(***************************************************************************)
\* create.py, class Create
NORTH == 0
SOUTH == 1
EAST == 2
WEST == 3
Headings == {NORTH, SOUTH, EAST, WEST}

\* picobot.py line 45: the slot of each axis letter in a sensor pattern (the
\* source counts slots from 0).
direction_map(letter) ==
    CASE letter = "N" -> 0
      [] letter = "E" -> 1
      [] letter = "W" -> 2
      [] letter = "S" -> 3

\* create.py line 7
create_direction_map(letter) ==
    CASE letter = "N" -> 0
      [] letter = "E" -> 2
      [] letter = "W" -> 3
      [] letter = "S" -> 1

\* str.upper on one character
upper_char(c) ==
    CASE c = "n" -> "N"
      [] c = "e" -> "E"
      [] c = "w" -> "W"
      [] c = "s" -> "S"
      [] c = "x" -> "X"
      [] OTHER -> c

upper(s) == [i \in 1..Len(s) |-> upper_char(s[i])]

(***************************************************************************)
(* make_state_machine (picobot.py)                                         *)
(***************************************************************************)
\* A compiler that polls every axis of a state that has rules.
poll_letters_all(direction_sets) ==
    {l \in {"N", "E", "W", "S"} : Len(direction_sets) > 0}

\* Lines 55-66: the letters of the axes that some pattern of the state
\* constrains.
poll_letters(direction_sets) ==
    {l \in {"N", "E", "W", "S"} :
        \E i \in 1..Len(direction_sets) :
            \/ l = "N" /\ direction_sets[i][1] # "*"
            \/ l = "E" /\ direction_sets[i][2] # "*"
            \/ l = "W" /\ direction_sets[i][3] # "*"
            \/ l = "S" /\ direction_sets[i][4] # "*"}

\* A compiler that pairs each polled letter with the engine's own
\* direction_map instead of the encoder's.
poll_directions_engine_map(direction_sets) ==
    {<<l, direction_map(l)>> : l \in poll_letters(direction_sets)}

\* Line 67: each polled letter is paired with the encoder's value for it.
poll_directions(direction_sets) ==
    {<<l, create_direction_map(l)>> : l \in poll_letters(direction_sets)}

\* Lines 69-70: a dictionary keyed by the upper-cased pattern; of two edges
\* with the same key the later one remains.
sensor_states_dict(state_edges) ==
    [key \in {upper(state_edges[i].sensor_state) : i \in 1..Len(state_edges)} |->
        LET last == CHOOSE j \in 1..Len(state_edges) :
                        /\ upper(state_edges[j].sensor_state) = key
                        /\ \A k \in (j + 1)..Len(state_edges) :
                               upper(state_edges[k].sensor_state) # key
        IN  <<upper_char(state_edges[last].direction),
              state_edges[last].new_state>>]

make_state_machine(sts) ==
    [st \in DOMAIN sts |->
        LET state_edges == sts[st]
            direction_sets == [i \in 1..Len(state_edges) |->
                                  upper(state_edges[i].sensor_state)]
        IN  [directions        |-> poll_directions(direction_sets),
             transition_states |-> sensor_states_dict(state_edges),
             ordered_states    |-> direction_sets]]

(***************************************************************************)
(* transition (picobot.py)                                                 *)
(***************************************************************************)
\* The string 'No such state'
NoSuchState == <<"N","o"," ","s","u","c","h"," ","s","t","a","t","e">>

\* Lines 81-85: the match flag of one ordered state.
match_flag(st, sensor_state) ==
    \A d \in 1..4 : st[d] = sensor_state[d] \/ st[d] = "*"

\* A transition that falls back on the first ordered state when none
\* matches.
transition_fallback(sensor_state, ordered_states) ==
    IF \E i \in 1..Len(ordered_states) : match_flag(ordered_states[i], sensor_state)
    THEN ordered_states[CHOOSE i \in 1..Len(ordered_states) :
                            /\ match_flag(ordered_states[i], sensor_state)
                            /\ \A k \in 1..(i - 1) :
                                   ~match_flag(ordered_states[k], sensor_state)]
    ELSE IF Len(ordered_states) > 0 THEN ordered_states[1] ELSE NoSuchState

transition(sensor_state, ordered_states) ==
    IF \E i \in 1..Len(ordered_states) : match_flag(ordered_states[i], sensor_state)
    THEN ordered_states[CHOOSE i \in 1..Len(ordered_states) :
                            /\ match_flag(ordered_states[i], sensor_state)
                            /\ \A k \in 1..(i - 1) :
                                   ~match_flag(ordered_states[k], sensor_state)]
    ELSE NoSuchState

\* A sensor word with the two symbols of a polled axis exchanged.
observed_word_exchanged(direction_states) ==
    [i \in 1..4 |->
        IF \E p \in direction_states : direction_map(p[1]) = i - 1
        THEN LET p == CHOOSE q \in direction_states : direction_map(q[1]) = i - 1
             IN  IF p[2] THEN "X" ELSE p[1]
        ELSE "*"]

\* Lines 99-102: the sensor word built from the (letter, value) pairs that
\* check_direction returned.
observed_word(direction_states) ==
    [i \in 1..4 |->
        IF \E p \in direction_states : direction_map(p[1]) = i - 1
        THEN LET p == CHOOSE q \in direction_states : direction_map(q[1]) = i - 1
             IN  IF p[2] THEN p[1] ELSE "X"
        ELSE "*"]

(***************************************************************************)
(* The command encoder (create.py, class Create).  A command is the        *)
(* sequence of bytes handed to one connection.write.                       *)
(***************************************************************************)
\* int.to_bytes(2, byteorder='big', signed=True)
to_bytes2(v) == LET u == v % 65536 IN <<u \div 256, u % 256>>

\* Opcodes
START == 128
FULL_MODE == 132
DRIVE == 137
READ_BUMPER == <<142, 7>>
WAIT_DIST == 156
WAIT_ANGLE == 157

\* Speeds
SLOW_FORWARD == to_bytes2(200)
SLOW_BACKWARD == to_bytes2(-200)
STATIONARY == to_bytes2(0)

\* Rotations: bytes.fromhex('8000'), 'ffff', '0001'
STRAIGHT == <<128, 0>>
CLOCKWISE == <<255, 255>>
COUNTER == <<0, 1>>

\* Distances
STRIDE == to_bytes2(100)
BUMP == to_bytes2(50)
UNBUMP == to_bytes2(-50)

\* Angles
RIGHT_ANGLE_CLOCKWISE == to_bytes2(-90)
RIGHT_ANGLE_COUNTER == to_bytes2(90)
ONE80_CLOCKWISE == to_bytes2(-180)
\* A variant with the sign of the clockwise half turn.
ONE80_COUNTER_negated == to_bytes2(-180)
ONE80_COUNTER == to_bytes2(180)
NO_TURN == to_bytes2(0)

\* A variant of the table with the two indices exchanged.
turn_map_transposed ==
    << << <<STRAIGHT, NO_TURN>>,
          <<COUNTER, ONE80_COUNTER>>,
          <<COUNTER, RIGHT_ANGLE_COUNTER>>,
          <<CLOCKWISE, RIGHT_ANGLE_CLOCKWISE>> >>,
       << <<CLOCKWISE, ONE80_CLOCKWISE>>,
          <<STRAIGHT, NO_TURN>>,
          <<CLOCKWISE, RIGHT_ANGLE_CLOCKWISE>>,
          <<COUNTER, RIGHT_ANGLE_COUNTER>> >>,
       << <<CLOCKWISE, RIGHT_ANGLE_CLOCKWISE>>,
          <<COUNTER, RIGHT_ANGLE_COUNTER>>,
          <<STRAIGHT, NO_TURN>>,
          <<COUNTER, ONE80_COUNTER>> >>,
       << <<COUNTER, RIGHT_ANGLE_COUNTER>>,
          <<CLOCKWISE, RIGHT_ANGLE_CLOCKWISE>>,
          <<CLOCKWISE, ONE80_CLOCKWISE>>,
          <<STRAIGHT, NO_TURN>> >> >>

\* Create.turn_map[from][to], indexed by the encoder's direction values
\* (the source counts from 0).
turn_map ==
    << << <<STRAIGHT, NO_TURN>>,
          <<CLOCKWISE, ONE80_CLOCKWISE>>,
          <<CLOCKWISE, RIGHT_ANGLE_CLOCKWISE>>,
          <<COUNTER, RIGHT_ANGLE_COUNTER>> >>,
       << <<COUNTER, ONE80_COUNTER>>,
          <<STRAIGHT, NO_TURN>>,
          <<COUNTER, RIGHT_ANGLE_COUNTER>>,
          <<CLOCKWISE, RIGHT_ANGLE_CLOCKWISE>> >>,
       << <<COUNTER, RIGHT_ANGLE_COUNTER>>,
          <<CLOCKWISE, RIGHT_ANGLE_CLOCKWISE>>,
          <<STRAIGHT, NO_TURN>>,
          <<CLOCKWISE, ONE80_CLOCKWISE>> >>,
       << <<CLOCKWISE, RIGHT_ANGLE_CLOCKWISE>>,
          <<COUNTER, RIGHT_ANGLE_COUNTER>>,
          <<COUNTER, ONE80_COUNTER>>,
          <<STRAIGHT, NO_TURN>> >> >>

stop_command == <<DRIVE>> \o STATIONARY \o STRAIGHT

\* A variant that turns a quarter clockwise whatever the pair.
turn_write_quarter(orient, direction) ==
    (<<DRIVE>> \o SLOW_FORWARD \o CLOCKWISE)
        \o (<<WAIT_ANGLE>> \o RIGHT_ANGLE_CLOCKWISE)
        \o stop_command

\* face_direction, lines 127-131: the bytes of its one write.
turn_write(orient, direction) ==
    LET entry == turn_map[orient + 1][direction + 1]
    IN  (<<DRIVE>> \o SLOW_FORWARD \o entry[1])
            \o (<<WAIT_ANGLE>> \o entry[2])
            \o stop_command

\* drive, lines 119-122: the bytes of its one write.
drive_write ==
    (<<DRIVE>> \o SLOW_FORWARD \o STRAIGHT) \o (<<WAIT_DIST>> \o STRIDE) \o stop_command

\* check_direction, lines 140-144: its five writes.
probe_writes ==
    << <<DRIVE>> \o SLOW_FORWARD \o STRAIGHT,
       <<WAIT_DIST>> \o BUMP,
       READ_BUMPER,
       <<DRIVE>> \o SLOW_BACKWARD \o STRAIGHT,
       <<WAIT_DIST>> \o UNBUMP >>

\* send: connection.write either takes the whole command or raises.  Of a
\* list of sends in a row, a prefix is written; failed says one raised.
send_all(planned) ==
    {[sent |-> SubSeq(planned, 1, k), failed |-> k < Len(planned)] :
        k \in 0..Len(planned)}

\* A variant that assigns orientation before the send.
face_direction_assign_first(orient, direction) ==
    {[sent |-> w.sent, failed |-> w.failed, orientation |-> direction] :
        w \in send_all(<<turn_write(orient, direction)>>)}

\* face_direction: orientation is assigned after the send returned.
face_direction(orient, direction) ==
    {[sent |-> w.sent, failed |-> w.failed,
      orientation |-> IF w.failed THEN orient ELSE direction] :
        w \in send_all(<<turn_write(orient, direction)>>)}

\* The turn step that opens drive and check_direction (lines 115-116, 136-137).
turn_if_needed(orient, direction) ==
    IF orient # direction
    THEN face_direction(orient, direction)
    ELSE {[sent |-> << >>, failed |-> FALSE, orientation |-> orient]}

drive(orient, direction) ==
    UNION {IF f.failed THEN {f}
           ELSE {[sent |-> f.sent \o w.sent, failed |-> w.failed,
                  orientation |-> f.orientation] :
                     w \in send_all(<<drive_write>>)} :
              f \in turn_if_needed(orient, direction)}

\* Lines 146-148: either bumper bit set.
bumped(bumper_data) ==
    LET left_bumper == (bumper_data \div 2) % 2 = 1
        right_bumper == bumper_data % 2 = 1
    IN  left_bumper \/ right_bumper

\* check_direction: the writes, then connection.read, which raises or
\* returns a status byte.
check_direction(orient, direction) ==
    UNION {IF f.failed
           THEN {[sent |-> f.sent, failed |-> TRUE,
                  orientation |-> f.orientation, result |-> FALSE]}
           ELSE UNION {IF w.failed
                       THEN {[sent |-> f.sent \o w.sent, failed |-> TRUE,
                              orientation |-> f.orientation, result |-> FALSE]}
                       ELSE {[sent |-> f.sent \o w.sent, failed |-> TRUE,
                              orientation |-> f.orientation, result |-> FALSE]}
                            \cup
                            {[sent |-> f.sent \o w.sent, failed |-> FALSE,
                              orientation |-> f.orientation,
                              result |-> bumped(b)] : b \in 0..MaxBumperByte} :
                          w \in send_all(probe_writes)} :
              f \in turn_if_needed(orient, direction)}

\* blink, lines 152-174: its nine writes.
LED == 139
play_advance_on == 10
play_advance_off == 0
power_color_orange == 127
power_color_green == 0
power_intensity_full == 255

blink_writes ==
    LET on == <<LED, play_advance_on, power_color_orange, power_intensity_full>>
        off == <<LED, play_advance_off, power_color_orange, power_intensity_full>>
        reset == <<LED, play_advance_off, power_color_green, power_intensity_full>>
    IN  <<on, off, on, off, on, off, on, off, reset>>

(***************************************************************************)
(* The commands as the agent reads them back from the bytes written: an    *)
(* opcode followed by its data bytes.                                      *)
(***************************************************************************)
\* The number of data bytes that follow an opcode.
data_bytes(opcode) ==
    CASE opcode = DRIVE -> 4
      [] opcode = LED -> 3
      [] opcode = WAIT_DIST -> 2
      [] opcode = WAIT_ANGLE -> 2
      [] opcode = READ_BUMPER[1] -> 1
      [] OTHER -> 0

\* int.from_bytes(pair, byteorder='big', signed=True)
from_bytes2(hi, lo) ==
    LET u == hi * 256 + lo IN IF u >= 32768 THEN u - 65536 ELSE u

\* The commands of one write, each <<opcode, data bytes>>.
RECURSIVE commands_of(_)
commands_of(bytes) ==
    IF bytes = << >> THEN << >>
    ELSE LET n == data_bytes(bytes[1])
         IN  << <<bytes[1], SubSeq(bytes, 2, n + 1)>> >>
                 \o commands_of(SubSeq(bytes, n + 2, Len(bytes)))

\* The commands of a sequence of writes.
RECURSIVE commands_sent(_)
commands_sent(writes) ==
    IF writes = << >> THEN << >>
    ELSE commands_of(Head(writes)) \o commands_sent(Tail(writes))

\* The sum of the signed angles of the WAIT_ANGLE commands among cmds.
RECURSIVE angle_sum(_)
angle_sum(cmds) ==
    IF cmds = << >> THEN 0
    ELSE (IF Head(cmds)[1] = WAIT_ANGLE
          THEN from_bytes2(Head(cmds)[2][1], Head(cmds)[2][2]) ELSE 0)
         + angle_sum(Tail(cmds))

\* The agent's heading in degrees counter-clockwise from North after it has
\* executed the writes.
turned(degrees, writes) == (degrees + angle_sum(commands_sent(writes))) % 360

(***************************************************************************)
(* __main__, lines 118-119, tabulated over the programs of the model: the  *)
(* parsed states and the state machine of each program text.               *)
(***************************************************************************)
load_states == [text \in Programs |-> parse(text)]

state_machines == [text \in Programs |-> make_state_machine(load_states[text])]

(***************************************************************************)
(* State.                                                                  *)
(***************************************************************************)
VARIABLES
    lines,            \* the program text handed to parse
    argv1,            \* sys.argv[1]
    pc,               \* where __main__ and run_state_machine stand
    exc,              \* the exception that is propagating, or how the process ended
    states,           \* __main__: states, the result of parse
    state_machine,    \* __main__: state_machine
    state,            \* run_state_machine: state
    direction_states, \* run_state_machine: the (letter, value) pairs of this step
    checked,          \* the directions check_direction was called with in this step
    decision,         \* what line 104-110 did in this step
    orientation,      \* Create.orientation
    connection,       \* the serial connection: "closed" or "open"
    sent,             \* the commands written to the connection in this step
    op,               \* the last call of a Create method: its arguments and writes
    heading           \* the heading the agent was commanded to, in degrees
                      \* counter-clockwise from North

vars == <<lines, argv1, pc, exc, states, state_machine, state, direction_states,
          checked, decision, orientation, connection, sent, op, heading>>

NoOp ==
    [name |-> "none", direction |-> NORTH, from |-> NORTH, sent |-> << >>,
     failed |-> FALSE, result |-> FALSE]

\* The record of a call of method name with argument direction, made at
\* orientation from, that wrote writes.
called(name, direction, from, writes, failed, result) ==
    [name |-> name, direction |-> direction, from |-> from, sent |-> writes,
     failed |-> failed, result |-> result]

NoDecision ==
    [from |-> << >>, word |-> << >>, direction |-> "", new_state |-> << >>,
     outcome |-> "none"]

Init ==
    /\ lines \in Programs
    /\ argv1 \in Argv1Values
    /\ pc = "load"
    /\ exc = "none"
    /\ states = << >>
    /\ state_machine = << >>
    /\ state = <<"0">>
    /\ direction_states = {}
    /\ checked = {}
    /\ decision = NoDecision
    /\ orientation = NORTH
    /\ connection = "closed"
    /\ sent = << >>
    /\ op = NoOp
    /\ heading = 0

\* __main__, lines 118-119
Load ==
    /\ pc = "load"
    /\ states' = load_states[lines]
    /\ state_machine' = state_machines[lines]
    /\ pc' = "args"
    /\ UNCHANGED <<lines, argv1, exc, state, direction_states, checked, decision,
                   orientation, connection, sent, op, heading>>

\* __main__, lines 120-124: argv[1] raises IndexError when absent, the empty
\* string leads to exit(42), anything else to Create(argv[1]).
CheckArgs ==
    /\ pc = "args"
    /\ IF argv1 = "missing" THEN pc' = "terminated" /\ exc' = "IndexError"
       ELSE IF argv1 = "" THEN pc' = "terminated" /\ exc' = "SystemExit42"
       ELSE pc' = "enter" /\ exc' = exc
    /\ orientation' = NORTH
    /\ UNCHANGED <<lines, argv1, states, state_machine, state, direction_states,
                   checked, decision, connection, sent, op, heading>>

\* Create.__enter__, lines 96-101, as called by the with statement of line
\* 126: an exception raised inside __enter__ leaves the with statement
\* without calling __exit__.
Enter ==
    /\ pc = "enter"
    /\ \/ /\ connection' = "closed"
          /\ sent' = << >>
          /\ op' = called("__enter__", NORTH, orientation, << >>, TRUE, FALSE)
          /\ exc' = "SerialException"
          /\ pc' = "terminated"
          /\ state' = state
       \/ \E w \in send_all(<< <<START>>, <<FULL_MODE>> >>) :
              /\ connection' = "open"
              /\ sent' = w.sent
              /\ op' = called("__enter__", NORTH, orientation, w.sent, w.failed, FALSE)
              /\ IF w.failed
                 THEN exc' = "SerialException" /\ pc' = "terminated" /\ state' = state
                 ELSE exc' = exc /\ pc' = "step" /\ state' = <<"0">>
    /\ heading' = turned(heading, sent')
    /\ UNCHANGED <<lines, argv1, states, state_machine, direction_states, checked,
                   decision, orientation>>

\* run_state_machine, line 97: machine[state] raises KeyError for a state
\* the machine does not hold.
StepBegin ==
    /\ pc = "step"
    /\ IF state \in DOMAIN state_machine
       THEN pc' = "poll" /\ exc' = exc
       ELSE pc' = "exit" /\ exc' = "KeyError"
    /\ direction_states' = {}
    /\ checked' = {}
    /\ decision' = NoDecision
    /\ sent' = << >>
    /\ UNCHANGED <<lines, argv1, states, state_machine, state, orientation,
                   connection, op, heading>>

\* run_state_machine, line 98: one check_direction call of the list
\* comprehension.  directions was made from a set, so its order is any.
Probe ==
    /\ pc = "poll"
    /\ \E dir \in state_machine[state].directions :
          /\ dir[1] \notin {p[1] : p \in direction_states}
          /\ \E out \in check_direction(orientation, dir[2]) :
                /\ checked' = checked \cup {dir[2]}
                /\ sent' = sent \o out.sent
                /\ op' = called("check_direction", dir[2], orientation, out.sent,
                                out.failed, out.result)
                /\ heading' = turned(heading, out.sent)
                /\ orientation' = out.orientation
                /\ IF out.failed
                   THEN /\ exc' = "SerialException"
                        /\ pc' = "exit"
                        /\ direction_states' = direction_states
                   ELSE /\ exc' = exc
                        /\ pc' = pc
                        /\ direction_states' =
                               direction_states \cup {<<dir[1], out.result>>}
    /\ UNCHANGED <<lines, argv1, states, state_machine, state, decision,
                   connection>>

\* run_state_machine, lines 99-110, once every direction has been checked.
Decide ==
    /\ pc = "poll"
    /\ \A dir \in state_machine[state].directions :
          dir[1] \in {p[1] : p \in direction_states}
    /\ LET m == state_machine[state]
           sensor_state == observed_word(direction_states)
           key == transition(sensor_state, m.ordered_states)
           done(dirn, new, how) ==
               [from |-> state, word |-> sensor_state, direction |-> dirn,
                new_state |-> new, outcome |-> how]
       IN  IF key \notin DOMAIN m.transition_states
           THEN /\ decision' = done("", << >>, "KeyError")
                /\ exc' = "KeyError"
                /\ pc' = "exit"
                /\ UNCHANGED <<state, orientation, sent, op, heading>>
           ELSE LET direction == m.transition_states[key][1]
                    new_state == m.transition_states[key][2]
                IN  IF direction = "X"
                    THEN /\ decision' = done(direction, new_state, "return")
                         /\ pc' = "exit"
                         /\ UNCHANGED <<exc, state, orientation, sent, op, heading>>
                    ELSE \E out \in drive(orientation, direction_map(direction)) :
                            /\ sent' = sent \o out.sent
                            /\ op' = called("drive", direction_map(direction),
                                            orientation, out.sent, out.failed, FALSE)
                            /\ heading' = turned(heading, out.sent)
                            /\ orientation' = out.orientation
                            /\ IF out.failed
                               THEN /\ decision' = done(direction, new_state, "drive failed")
                                    /\ exc' = "SerialException"
                                    /\ pc' = "exit"
                                    /\ state' = state
                               ELSE /\ decision' = done(direction, new_state, "drove")
                                    /\ exc' = exc
                                    /\ pc' = "step"
                                    /\ state' = new_state
    /\ UNCHANGED <<lines, argv1, states, state_machine, direction_states, checked,
                   connection>>

\* Create.__exit__, lines 105-106, called when the body of the with
\* statement returns or raises; then line 128 or the traceback.
Exit ==
    /\ pc = "exit"
    /\ connection' = "closed"
    /\ pc' = "terminated"
    /\ op' = called("__exit__", NORTH, orientation, << >>, FALSE, FALSE)
    /\ UNCHANGED <<lines, argv1, exc, states, state_machine, state,
                   direction_states, checked, decision, orientation, sent, heading>>

Next == Load \/ CheckArgs \/ Enter \/ StepBegin \/ Probe \/ Decide \/ Exit

Spec == Init /\ [][Next]_vars

\* The process keeps running: it is one sequential program.
LiveSpec == Init /\ [][Next]_vars /\ WF_vars(Next)

(***************************************************************************)
(* A session of a client of Create, as create.py's own __main__ (lines     *)
(* 176-183) runs one: the object is constructed, the with block is         *)
(* entered, the public methods are called in some order with some          *)
(* directions, and the with block is left.                                 *)
(***************************************************************************)
\* The variables of the rule engine, which a client session does not have.
engine_vars ==
    <<lines, argv1, states, state_machine, state, direction_states, checked,
      decision>>

\* Line 177: Create(argv[1]).
ClientInit ==
    /\ lines = << >>
    /\ argv1 = "dev"
    /\ pc = "client enter"
    /\ exc = "none"
    /\ states = << >>
    /\ state_machine = << >>
    /\ state = <<"0">>
    /\ direction_states = {}
    /\ checked = {}
    /\ decision = NoDecision
    /\ orientation = NORTH
    /\ connection = "closed"
    /\ sent = << >>
    /\ op = NoOp
    /\ heading = 0

\* Line 178: __enter__.  When it raises, __exit__ is not called.
ClientEnter ==
    /\ pc = "client enter"
    /\ \/ /\ connection' = "closed"
          /\ sent' = << >>
          /\ op' = called("__enter__", NORTH, orientation, << >>, TRUE, FALSE)
          /\ exc' = "SerialException"
          /\ pc' = "terminated"
       \/ \E w \in send_all(<< <<START>>, <<FULL_MODE>> >>) :
              /\ connection' = "open"
              /\ sent' = w.sent
              /\ op' = called("__enter__", NORTH, orientation, w.sent, w.failed, FALSE)
              /\ IF w.failed
                 THEN exc' = "SerialException" /\ pc' = "terminated"
                 ELSE exc' = exc /\ pc' = "client"
    /\ heading' = turned(heading, sent')
    /\ UNCHANGED <<engine_vars, orientation>>

\* The end of a call made in the with block: an exception leaves the block.
returned(failed) ==
    IF failed
    THEN exc' = "SerialException" /\ pc' = "client exit"
    ELSE exc' = exc /\ pc' = "client"

\* create.blink()
ClientBlink ==
    /\ pc = "client"
    /\ \E w \in send_all(blink_writes) :
          /\ sent' = w.sent
          /\ op' = called("blink", NORTH, orientation, w.sent, w.failed, FALSE)
          /\ heading' = turned(heading, w.sent)
          /\ returned(w.failed)
    /\ UNCHANGED <<engine_vars, orientation, connection>>

\* create.drive(direction)
ClientDrive ==
    /\ pc = "client"
    /\ \E direction \in Headings : \E out \in drive(orientation, direction) :
          /\ sent' = out.sent
          /\ op' = called("drive", direction, orientation, out.sent, out.failed, FALSE)
          /\ heading' = turned(heading, out.sent)
          /\ orientation' = out.orientation
          /\ returned(out.failed)
    /\ UNCHANGED <<engine_vars, connection>>

\* create.face_direction(direction)
ClientFace ==
    /\ pc = "client"
    /\ \E direction \in Headings : \E out \in face_direction(orientation, direction) :
          /\ sent' = out.sent
          /\ op' = called("face_direction", direction, orientation, out.sent,
                          out.failed, FALSE)
          /\ heading' = turned(heading, out.sent)
          /\ orientation' = out.orientation
          /\ returned(out.failed)
    /\ UNCHANGED <<engine_vars, connection>>

\* create.check_direction(direction)
ClientCheck ==
    /\ pc = "client"
    /\ \E direction \in Headings : \E out \in check_direction(orientation, direction) :
          /\ sent' = out.sent
          /\ op' = called("check_direction", direction, orientation, out.sent,
                          out.failed, out.result)
          /\ heading' = turned(heading, out.sent)
          /\ orientation' = out.orientation
          /\ returned(out.failed)
    /\ UNCHANGED <<engine_vars, connection>>

\* The body of the with block ends.
ClientLeave ==
    /\ pc = "client"
    /\ pc' = "client exit"
    /\ UNCHANGED <<engine_vars, exc, orientation, connection, sent, op, heading>>

\* __exit__
ClientExit ==
    /\ pc = "client exit"
    /\ connection' = "closed"
    /\ pc' = "terminated"
    /\ op' = called("__exit__", NORTH, orientation, << >>, FALSE, FALSE)
    /\ UNCHANGED <<engine_vars, exc, orientation, sent, heading>>

ClientNext ==
    ClientEnter \/ ClientBlink \/ ClientDrive \/ ClientFace \/ ClientCheck
        \/ ClientLeave \/ ClientExit

ClientSpec == ClientInit /\ [][ClientNext]_vars

\* Either main program: picobot.py's or create.py's.
MainInit == Init \/ ClientInit

MainNext == Next \/ ClientNext

MainSpec == MainInit /\ [][MainNext]_vars

(***************************************************************************)
(* Vocabulary of the properties.                                           *)
(***************************************************************************)
Letters == {"N", "E", "W", "S"}

\* The slot of an axis in a sensor pattern: the axis order is N, E, W, S.
SlotOf(l) == CASE l = "N" -> 1 [] l = "E" -> 2 [] l = "W" -> 3 [] l = "S" -> 4

\* The encoder's heading for a compass letter.
HeadingOf(l) ==
    CASE l = "N" -> NORTH [] l = "E" -> EAST [] l = "W" -> WEST [] l = "S" -> SOUTH

\* A pattern matches a word when each slot is '*' or equals the word's slot.
WildcardMatch(pattern, word) ==
    \A i \in 1..4 : pattern[i] = "*" \/ upper_char(pattern[i]) = word[i]

\* The axes that some rule of a rule list constrains.
ConstrainedAxes(rules) ==
    {l \in Letters : \E i \in 1..Len(rules) : rules[i].sensor_state[SlotOf(l)] # "*"}

RulesOf(st) == IF st \in DOMAIN states THEN states[st] ELSE << >>

\* The engine step has reached lines 104-110.
Decided == decision.outcome # "none"

\* The step executed a rule: it selected one and went on to halt or drive.
Executed == decision.outcome \in {"drove", "return", "drive failed"}

\* The state whose rules the current step uses.
StepState == IF Decided THEN decision.from ELSE state

DriveSent == \E i \in 1..Len(sent) : sent[i] = drive_write

\* The rules the program text declares for a state under the documented
\* grammar, whose direction is one of N, E, W, S or the halt marker X.
RECURSIVE DeclaredRules(_, _)
DeclaredRules(text, st) ==
    IF text = << >> THEN << >>
    ELSE LET m == IF comment_regex(Head(text)) THEN << >>
                  ELSE GrammarMatch(Head(text), DirectionClass \cup {"x", "X"})
             rest == DeclaredRules(Tail(text), st)
         IN  IF m # << >> /\ m[1].state_num = st THEN m \o rest ELSE rest

FirstMatch(rules, word) ==
    CHOOSE i \in 1..Len(rules) :
        /\ WildcardMatch(rules[i].sensor_state, word)
        /\ \A k \in 1..(i - 1) : ~WildcardMatch(rules[k].sensor_state, word)

SomeMatch(rules, word) ==
    \E i \in 1..Len(rules) : WildcardMatch(rules[i].sensor_state, word)

(***************************************************************************)
(* C1: the rule that run_state_machine executes (its direction and target  *)
(* state) is the lowest-index rule of the state's rule list whose pattern  *)
(* matches the observed word, also when two rules carry the same pattern.  *)
(***************************************************************************)
C1_LowestIndexRule ==
    decision.outcome \in {"drove", "return"} =>
        LET rules == RulesOf(decision.from)
        IN  /\ SomeMatch(rules, decision.word)
            /\ decision.direction =
                   upper_char(rules[FirstMatch(rules, decision.word)].direction)
            /\ decision.new_state =
                   rules[FirstMatch(rules, decision.word)].new_state

WordSlotsAre(blockedSymbol(_), clearSymbol(_)) ==
    \A l \in Letters :
        IF l \in ConstrainedAxes(RulesOf(decision.from))
        THEN \E p \in direction_states :
                 /\ p[1] = l
                 /\ decision.word[SlotOf(l)] =
                        IF p[2] THEN blockedSymbol(l) ELSE clearSymbol(l)
        ELSE decision.word[SlotOf(l)] = "*"

AxisLetter(l) == l
BlockedMark(l) == "X"

C3_PollSet ==
    LET expected == {HeadingOf(l) : l \in ConstrainedAxes(RulesOf(StepState))}
    IN  /\ checked \subseteq expected
        /\ Decided => checked = expected

C3_Witness ==
    /\ Decided
    /\ checked = {EAST, SOUTH}

(***************************************************************************)
(* C4: when the first rule the program text declares for the current       *)
(* state that matches the observed word has the halt marker as its         *)
(* direction, run_state_machine returns normally at that step and sends no *)
(* drive command.                                                          *)
(***************************************************************************)
C4_HaltRuleReturns ==
    LET rules == DeclaredRules(lines, decision.from)
    IN  (/\ Decided
         /\ SomeMatch(rules, decision.word)
         /\ upper_char(rules[FirstMatch(rules, decision.word)].direction) = "X")
        => (decision.outcome = "return" /\ exc = "none" /\ ~DriveSent)

(***************************************************************************)
(* C5: after a step that drove for a rule with direction D, the encoder's  *)
(* orientation is its value for D and the engine's state is the rule's     *)
(* target state.                                                           *)
(***************************************************************************)
C5_DrivesDeclaredDirection ==
    decision.outcome = "drove" =>
        /\ orientation = HeadingOf(decision.direction)
        /\ state = decision.new_state

(***************************************************************************)
(* C6: when no rule of the current state matches the observed word, the    *)
(* run ends with an error at that step: no drive command is sent, the      *)
(* current state is unchanged and no further step begins.                  *)
(***************************************************************************)
C6_NoMatchIsFatal ==
    (Decided /\ ~SomeMatch(RulesOf(decision.from), decision.word)) =>
        /\ decision.outcome = "KeyError"
        /\ exc = "KeyError"
        /\ pc \in {"exit", "terminated"}
        /\ state = decision.from
        /\ ~DriveSent

C6_Witness ==
    /\ Decided
    /\ ~SomeMatch(RulesOf(decision.from), decision.word)
    /\ pc = "terminated"

AllTargetsExist ==
    \A st \in DOMAIN states :
        \A i \in 1..Len(states[st]) : states[st][i].new_state \in DOMAIN state_machine

(***************************************************************************)
(* C7: a program with a rule whose target state is not a state of the      *)
(* compiled machine is rejected when the machine is built: the connection  *)
(* is never opened for it, and no step drives for a rule whose target      *)
(* state does not exist.                                                   *)
(***************************************************************************)
C7_DanglingTargetRejected ==
    /\ (connection = "open" /\ exc = "none") => AllTargetsExist
    /\ decision.outcome = "drove" => decision.new_state \in DOMAIN state_machine

(***************************************************************************)
(* C8: no terminal state of the program has the connection open.           *)
(***************************************************************************)
C8_ConnectionReleased == pc = "terminated" => connection = "closed"

ScenarioA == lines = <<LineA>> /\ argv1 = "dev"

C9_StepA ==
    /\ checked = {}
    /\ state = <<"0">>
    /\ exc \in {"none", "SerialException"}
    /\ decision.outcome \in {"none", "drove", "drive failed"}
    /\ pc = "terminated" => exc = "SerialException"
    /\ decision.outcome = "drove" =>
           /\ decision.direction = "N"
           /\ orientation = NORTH
           /\ sent = <<drive_write>>

(***************************************************************************)
(* C9: running "0 **** -> N 0": check_direction is never called, every     *)
(* step sends exactly a drive North and stays in state 0, and              *)
(* run_state_machine never returns; unless the transport fails, steps are  *)
(* taken infinitely often.                                                 *)
(***************************************************************************)
C9_ScenarioA ==
    /\ [](ScenarioA => C9_StepA)
    /\ ScenarioA => ([]<>(decision.outcome = "drove") \/ <>(exc = "SerialException"))

C9_Witness ==
    /\ ScenarioA
    /\ decision.outcome = "drove"
    /\ state = <<"0">>
    /\ sent = <<drive_write>>

ScenarioB == lines = <<LineB1, LineB2>> /\ argv1 = "dev"

(***************************************************************************)
(* C10: running "0 X*** -> E 1" / "0 N*** -> X 0" with the North probe     *)
(* reporting blocked: the step probes North only, executes the first rule, *)
(* sends a turn from North to East and then a forward drive, and leaves    *)
(* the agent facing East with the engine in state 1.                       *)
(***************************************************************************)
C10_ScenarioB ==
    (/\ ScenarioB
     /\ Decided
     /\ decision.from = <<"0">>
     /\ <<"N", TRUE>> \in direction_states
     /\ exc # "SerialException")
    => /\ checked = {NORTH}
       /\ decision.outcome = "drove"
       /\ decision.direction = "E"
       /\ decision.new_state = <<"1">>
       /\ Len(sent) >= 2
       /\ SubSeq(sent, Len(sent) - 1, Len(sent)) = <<turn_write(NORTH, EAST), drive_write>>
       /\ orientation = EAST
       /\ state = <<"1">>

\* The rules that the lines of text declare for state number key, in the
\* order of the lines.
RulesDeclaredFor(text, key) ==
    LET OfKey(m) == m.state_num = key IN SelectSeq(match_dicts(text), OfKey)

\* The state numbers that the lines of text declare rules for.
StateNumbers(text) ==
    {match_dicts(text)[i].state_num : i \in 1..Len(match_dicts(text))}

(***************************************************************************)
(* C11: once the program text is loaded, every state number that has a     *)
(* rule line is a key of the parsed program, and its group is exactly the  *)
(* rules declared for it, in declaration order, none lost -- also when the *)
(* lines of one state are separated by lines of another state.             *)
(***************************************************************************)
C11_NoRuleLost ==
    pc # "load" =>
        \A key \in StateNumbers(lines) :
            /\ key \in DOMAIN states
            /\ states[key] = RulesDeclaredFor(lines, key)

\* The line carries the comment marker.
HasCommentMarker(line) == \E i \in 1..Len(line) : line[i] = "#"

\* The lines of text that match the grammar and carry no comment marker, in
\* the order of text.
KeptLines(text) ==
    LET Kept(line) == state_regex(line) # << >> /\ ~HasCommentMarker(line)
    IN  SelectSeq(text, Kept)

(***************************************************************************)
(* C12: parse returns, without raising, on every text, and what it returns *)
(* is what it returns on the lines of the text that match the grammar and  *)
(* carry no '#': the dropped lines change no group.                        *)
(***************************************************************************)
C12_DroppedLinesChangeNothing ==
    pc = "args" => states = parse(KeptLines(lines))

\* A text with a malformed line, a comment line and a rule has been parsed.
C12_Witness ==
    /\ pc = "args"
    /\ \E i, j, k \in 1..Len(lines) :
          /\ lines[i] = LineBad
          /\ HasCommentMarker(lines[j])
          /\ lines[k] \in {LineA, LineLower}
    /\ DOMAIN states # {}
    /\ Len(KeptLines(lines)) = 1

(***************************************************************************)
(* C13: a run started without a device identifier -- no first positional   *)
(* argument, or an empty one -- ends with the configuration error (the     *)
(* message and exit status 42), whatever the program text was, and has     *)
(* neither opened the connection nor sent a command.                       *)
(***************************************************************************)
C13_NoDeviceIsConfigurationError ==
    (pc = "terminated" /\ argv1 \in {"missing", ""})
    => /\ exc = "SystemExit42"
       /\ connection = "closed"
       /\ sent = << >>
       /\ op = NoOp

\* The DRIVE commands among cmds, in order.
DriveCommands(cmds) ==
    LET IsDrive(c) == c[1] = DRIVE IN SelectSeq(cmds, IsDrive)

\* The last DRIVE command among the writes is the stationary one.
LastDriveIsStop(writes) ==
    LET drives == DriveCommands(commands_sent(writes))
    IN  drives # << >> =>
            drives[Len(drives)] = <<DRIVE, STATIONARY \o STRAIGHT>>

\* A call of one of the three motion methods has returned.
MotionCompleted ==
    /\ op.name \in {"drive", "face_direction", "check_direction"}
    /\ ~op.failed

(***************************************************************************)
(* C14: when drive, face_direction or check_direction has returned, the    *)
(* last DRIVE command it sent is the stationary one: no motion command is  *)
(* left without its stop.                                                  *)
(***************************************************************************)
C14_MotionEndsWithStop ==
    MotionCompleted => LastDriveIsStop(op.sent)

\* The writes among writes that carry a WAIT_ANGLE command: the turn commands.
TurnWrites(writes) ==
    LET IsTurn(w) == \E i \in 1..Len(commands_of(w)) : commands_of(w)[i][1] = WAIT_ANGLE
    IN  SelectSeq(writes, IsTurn)

\* The signed angle a turn command waits for, and the radius bytes of the
\* DRIVE command that opens it.
TurnAngle(w) == angle_sum(commands_of(w))
TurnRadius(w) == SubSeq(commands_of(w)[1][2], 3, 4)

\* The place of a heading on the compass cycle N -> E -> S -> W, which runs
\* clockwise.
CompassPlace(h) ==
    CASE h = NORTH -> 0 [] h = EAST -> 1 [] h = SOUTH -> 2 [] h = WEST -> 3

\* The quarter turns, clockwise, from heading a to heading b.
QuartersClockwise(a, b) == (CompassPlace(b) - CompassPlace(a) + 4) % 4

\* The magnitude of an angle.
Magnitude(angle) == IF angle < 0 THEN 0 - angle ELSE angle

\* The radius bytes spin the agent in the sense of the sign of the angle:
\* clockwise is negative.
SenseAgrees(radius, angle) ==
    /\ angle < 0 => radius = CLOCKWISE
    /\ angle > 0 => radius = COUNTER
    /\ angle = 0 => radius = STRAIGHT

\* The turn command w carries heading a to heading b by the smallest angle.
CarriesShortest(w, a, b) ==
    /\ SenseAgrees(TurnRadius(w), TurnAngle(w))
    /\ (CompassPlace(a) * 90 - TurnAngle(w) + 360) % 360 = CompassPlace(b) * 90
    /\ Magnitude(TurnAngle(w)) =
           (IF QuartersClockwise(a, b) = 3 THEN 1 ELSE QuartersClockwise(a, b)) * 90

(***************************************************************************)
(* C15: the turn command sent for a pair (from, to) of headings carries    *)
(* from to to on the compass cycle N -> E -> S -> W by the smallest angle: *)
(* none for equal headings, 90 degrees in the shorter sense for adjacent   *)
(* ones, 180 degrees for opposite ones.                                    *)
(***************************************************************************)
C15_TurnCarriesShortest ==
    \A i \in 1..Len(TurnWrites(op.sent)) :
        /\ TurnWrites(op.sent)[i] = turn_write(op.from, op.direction)
        /\ CarriesShortest(TurnWrites(op.sent)[i], op.from, op.direction)

\* The turn from North to West has been sent: counter-clockwise by 90.
C15_Witness ==
    /\ op.name = "face_direction"
    /\ ~op.failed
    /\ op.from = NORTH
    /\ op.direction = WEST
    /\ orientation = WEST
    /\ Len(TurnWrites(op.sent)) = 1
    /\ TurnAngle(op.sent[1]) = 90
    /\ TurnRadius(op.sent[1]) = COUNTER

\* The rotation a turn command asks for: its radius bytes and signed angle.
TurnKind(w) == <<TurnRadius(w), TurnAngle(w)>>

\* The two headings are opposite.
Opposite(a, b) == QuartersClockwise(a, b) = 2

\* The four kinds of rotation: none, clockwise 90, clockwise 180, counter 90.
FourKinds ==
    {<<STRAIGHT, 0>>, <<CLOCKWISE, -90>>, <<CLOCKWISE, -180>>, <<COUNTER, 90>>}

FacingSameHeading ==
    /\ op.name \in {"face_direction", "drive", "check_direction"}
    /\ op.from = op.direction

(***************************************************************************)
(* C17: a request to face the heading that orientation already holds sends *)
(* no command for the turn and leaves orientation unchanged; so of two     *)
(* consecutive requests to face one target the second sends nothing.       *)
(***************************************************************************)
C17_FacingIsIdempotent ==
    FacingSameHeading
    => /\ TurnWrites(op.sent) = << >>
       /\ op.name = "face_direction" => op.sent = << >>
       /\ orientation = op.from

\* The write w is among the writes.
Written(w, writes) == \E i \in 1..Len(writes) : writes[i] = w

(***************************************************************************)
(* C18: orientation is always one of the four headings, and it changes     *)
(* only in a call of face_direction, drive or check_direction that wrote   *)
(* the whole turn command from the old heading to the new one; blink,      *)
(* __enter__, __exit__ and a call whose turn write failed leave it as it   *)
(* was.                                                                    *)
(***************************************************************************)
C18_OrientationFrame ==
    /\ [](orientation \in Headings)
    /\ [][orientation' # orientation =>
            /\ op'.name \in {"face_direction", "drive", "check_direction"}
            /\ op'.from = orientation
            /\ op'.direction = orientation'
            /\ Written(turn_write(orientation, orientation'), op'.sent)]_vars

\* A drive toward another heading whose turn write failed: orientation is
\* the one before the call.
C18_Witness ==
    /\ op.name = "drive"
    /\ op.from # op.direction
    /\ op.failed
    /\ op.sent = << >>
    /\ orientation = op.from
    /\ orientation # NORTH

\* A heading in degrees counter-clockwise from North.
DegreesOf(h) ==
    CASE h = NORTH -> 0 [] h = WEST -> 90 [] h = SOUTH -> 180 [] h = EAST -> 270

(***************************************************************************)
(* C19: from North on, after any calls of drive and check_direction, the   *)
(* heading obtained by summing the signed angles of all turn commands sent *)
(* (clockwise negative, modulo 360) is the heading that orientation        *)
(* records.                                                                *)
(***************************************************************************)
C19_OrientationTracksHeading ==
    heading = DegreesOf(orientation)

\* Two turns have been sent, North to West and then West to East inside a
\* check_direction that returned.
C19_Witness ==
    /\ op.name = "check_direction"
    /\ ~op.failed
    /\ op.from = WEST
    /\ orientation = EAST
    /\ heading = 270

\* The integer a numeral denotes.
DigitValue(c) ==
    CASE c = "0" -> 0 [] c = "1" -> 1 [] c = "2" -> 2 [] c = "3" -> 3 [] c = "4" -> 4
      [] c = "5" -> 5 [] c = "6" -> 6 [] c = "7" -> 7 [] c = "8" -> 8 [] c = "9" -> 9

RECURSIVE NumeralValue(_)
NumeralValue(numeral) ==
    IF numeral = << >> THEN 0
    ELSE NumeralValue(SubSeq(numeral, 1, Len(numeral) - 1)) * 10
             + DigitValue(numeral[Len(numeral)])

\* Two numerals denote the same state.
SameState(a, b) == NumeralValue(a) = NumeralValue(b)

(***************************************************************************)
(* C20: state identifiers are integers.  Numerals of one integer are one   *)
(* key of the parsed program, and a state -- the initial one or the target *)
(* of a rule -- is found in the machine whenever the program declares a    *)
(* state of the same integer, however either is written.                   *)
(***************************************************************************)
C20_StateIdsAreIntegers ==
    /\ \A a, b \in DOMAIN states : SameState(a, b) => a = b
    /\ (pc \in {"step", "exit", "terminated"} /\ connection = "open"
            /\ state \notin DOMAIN state_machine)
       => \A key \in DOMAIN state_machine : ~SameState(key, state)

=============================================================================
